---------------------------- MODULE Spec2Model ----------------------------
(***************************************************************************)
(* Model of botorch/acquisition/utils.py.  Each utility is a pure function *)
(* of its arguments and of the random draws it makes; a behaviour is one   *)
(* call: the arguments are chosen in the initial state, the call action    *)
(* computes what the code computes and leaves the result in ret or the     *)
(* exception in raised.  Tensors are sequences (1-based): a matrix is a    *)
(* sequence of rows.  Python index k (0-based) is index k + 1 here.        *)
(***************************************************************************)
EXTENDS Integers, Sequences, FiniteSets, TLC

VARIABLES
    pc,       \* "call" before the call, "return" / "raise" after it
    args,     \* the arguments of the call (a record, keyed by parameter name)
    locals,   \* local values of the call worth observing (random draws etc.)
    ret,      \* the returned tensor
    raised    \* the exception raised, "none" if none

vars == <<pc, args, locals, ret, raised>>

\* an Optional value: None, or Some(x) whose value is Some(x)[1]
None == <<>>

Some(x) == <<x>>
NoLocals == [none |-> TRUE]

\* ------------------------------------------------------------------ bounds
MaxN == 3          \* rows of X in prune_inferior_points
NumSamples == 2    \* posterior samples drawn (num_samples)
MaxNumel == 4      \* entries of obj in compute_best_feasible_objective
MaxPoints == 2     \* design points X in get_infeasible_cost
MaxBaseline == 2   \* rows of X in _estimate_objective_lower_bound
MaxTargets == 2    \* entries of target_fidelities
MaxTrace == 2      \* num_trace_obs

\* ----------------------------------------------------------- tensor helpers
Range(s) == {s[i] : i \in DOMAIN s}

Min2(a, b) == IF a <= b THEN a ELSE b

\* Tensor.amax over a vector
amax(v) == CHOOSE x \in Range(v) : \A y \in Range(v) : y <= x

\* Tensor.min over a vector
amin(v) == CHOOSE x \in Range(v) : \A y \in Range(v) : x <= y

\* all sequences over S with length in lo..hi
SeqsOf(S, lo, hi) == UNION {[1..k -> S] : k \in lo..hi}

\* ---------------------------------------------------- prune_inferior_points
\* max_frac values <<numerator, denominator>>; quarters are exact in binary
\* floating point, so max_frac * n is the exact product
MaxFracs == {<<-1, 4>>, <<0, 4>>, <<1, 4>>, <<2, 4>>, <<4, 4>>, <<5, 4>>}

Coords == {0, 1}
ObjVals == {0, 1}

\* math.ceil(max_frac * n)
ceil_frac(max_frac, n) == -((-(max_frac[1] * n)) \div max_frac[2])

\* torch.argmax over a vector: the index of the first maximal value
argmax(v) ==
    CHOOSE i \in DOMAIN v :
        /\ \A j \in DOMAIN v : v[j] <= v[i]
        /\ \A j \in DOMAIN v : j < i => v[j] < v[i]

\* sorted sequence of the elements of a finite set of integers
RECURSIVE SortedSeq(_)
SortedSeq(S) ==
    IF S = {} THEN <<>>
    ELSE LET m == CHOOSE x \in S : \A y \in S : x <= y
         IN  <<m>> \o SortedSeq(S \ {m})

\* torch.unique(is_best, return_counts=True): sorted distinct values and
\* how often each occurs
unique(is_best) ==
    LET idcs == SortedSeq(Range(is_best))
    IN  [idcs   |-> idcs,
         counts |-> [k \in DOMAIN idcs |->
                        Cardinality({s \in DOMAIN is_best : is_best[s] = idcs[k]})]]

\* torch.sort(counts, descending=True): the index orders it may return
\* (the sort is not stable, so equal counts come in any order)
sort_descending(counts) ==
    {o \in [DOMAIN counts -> DOMAIN counts] :
        /\ \A a, b \in DOMAIN counts : a # b => o[a] # o[b]
        /\ \A a, b \in DOMAIN counts : a < b => counts[o[a]] >= counts[o[b]]}

\* a faulty variant of truncate: the slice is left out
truncate_untruncated(order_idcs, max_points) == order_idcs

\* order_idcs[:max_points]
truncate(order_idcs, max_points) ==
    SubSeq(order_idcs, 1, Min2(max_points, Len(order_idcs)))

\* X[idcs]
index_rows(X, idcs) == [k \in DOMAIN idcs |-> X[idcs[k]]]

\* a faulty variant of max_frac_invalid: the upper check is left out
max_frac_invalid_lower_only(X, max_frac) == ceil_frac(max_frac, Len(X)) < 1

\* max_points = math.ceil(max_frac * X.size(-2)) is out of 1..n
max_frac_invalid(X, max_frac) ==
    ceil_frac(max_frac, Len(X)) < 1 \/ ceil_frac(max_frac, Len(X)) > Len(X)

\* the rows prune_inferior_points returns for a non-batched X and a valid
\* max_frac, given the objective values of the drawn samples and the order
\* torch.sort returns
prune_inferior_points(X, max_frac, obj_vals, order_idcs) ==
    LET max_points == ceil_frac(max_frac, Len(X))
        is_best    == [s \in DOMAIN obj_vals |-> argmax(obj_vals[s])]
        u          == unique(is_best)
        idcs       == IF Len(u.idcs) > max_points
                      THEN truncate(order_idcs, max_points)
                      ELSE u.idcs
    IN  index_rows(X, idcs)

InitPrune ==
    /\ pc = "call"
    /\ args \in [X : SeqsOf([1..1 -> Coords], 1, MaxN), max_frac : MaxFracs]
    /\ locals = NoLocals
    /\ ret = None
    /\ raised = "none"

\* one call of prune_inferior_points: max_frac is validated; then the
\* sampler draws the samples, the objective maps them to obj_vals and
\* torch.sort picks an order
PruneCall ==
    /\ pc = "call"
    /\ IF max_frac_invalid(args.X, args.max_frac)
       THEN /\ pc' = "raise"
            /\ raised' = "ValueError"
            /\ locals' = [posterior_queried |-> FALSE]
            /\ UNCHANGED ret
       ELSE \E obj_vals \in [1..NumSamples -> [1..Len(args.X) -> ObjVals]] :
              LET u == unique([s \in DOMAIN obj_vals |-> argmax(obj_vals[s])])
              IN  \E order_idcs \in sort_descending(u.counts) :
                    /\ pc' = "return"
                    /\ ret' = prune_inferior_points(args.X, args.max_frac,
                                                    obj_vals, order_idcs)
                    /\ locals' = [posterior_queried |-> TRUE,
                                  obj_vals |-> obj_vals,
                                  order_idcs |-> order_idcs]
                    /\ UNCHANGED raised
    /\ UNCHANGED args

NextPrune == PruneCall

SpecPrune == InitPrune /\ [][NextPrune]_vars

\* the indices of X that are the argmax of the objective in some sample
BestIndices == {argmax(locals.obj_vals[s]) : s \in DOMAIN locals.obj_vals}

\* C1: every row prune_inferior_points returns is a row X[i] whose index i
\* is the argmax of the objective values in at least one posterior sample,
\* also when the result is truncated to ceil(max_frac * n) rows.
C1_ReturnedRowsAreBest ==
    pc = "return" =>
        \A k \in DOMAIN ret :
            \E i \in BestIndices : args.X[i] = ret[k]

\* the least integer c with c >= max_frac * n
CeilOfProduct(max_frac, n) ==
    CHOOSE c \in -(2 * n)..(2 * n) :
        /\ c * max_frac[2] >= max_frac[1] * n
        /\ (c - 1) * max_frac[2] < max_frac[1] * n

\* C2: prune_inferior_points returns exactly min(N_nz, ceil(max_frac * n))
\* rows, N_nz being the number of distinct argmax indices over the samples;
\* so it never returns more than ceil(max_frac * n) rows.
C2_ReturnedRowCount ==
    pc = "return" =>
        /\ Len(ret) = Min2(Cardinality(BestIndices),
                           CeilOfProduct(args.max_frac, Len(args.X)))
        /\ Len(ret) <= CeilOfProduct(args.max_frac, Len(args.X))

\* a call whose distinct argmax indices outnumber ceil(max_frac * n), so the
\* result is truncated
C2_Witness ==
    /\ pc = "return"
    /\ Cardinality(BestIndices) > CeilOfProduct(args.max_frac, Len(args.X))
    /\ Len(ret) = CeilOfProduct(args.max_frac, Len(args.X))
    /\ Len(ret) >= 1

\* ------------------------------------------ compute_best_feasible_objective
\* obj is (sample_shape) x batch_shape x q; the leading dimensions are
\* flattened into a sequence of elements, each a vector of q values
Shapes == {sh \in (1..MaxNumel) \X (1..MaxNumel) : sh[1] * sh[2] <= MaxNumel}

Tensors(sh, Vals) == [1..sh[1] -> [1..sh[2] -> Vals]]

\* posterior samples (one outcome, m = 1) and objective values
SampleVals == {-1, 0}
CbfoObjVals == {0, 1}

\* constraint callables on a sample Y: "Y" is Y itself, "negY" is -Y
ConstraintLists == {None, Some(<<"Y">>), Some(<<"Y", "negY">>)}

apply_constraint(c, y) == IF c = "Y" THEN y ELSE -y

\* the infeasible_obj passed (a one-element tensor), and the values the
\* inferred lower bound (-get_infeasible_cost, never positive) may take
InfeasibleObjs == {None, <<-2>>, <<2>>}
LowerBounds == {-3, 0}

\* -torch.inf: below every finite value of the model
NegInf == -1000000

\* compute_feasibility_indicator (botorch.utils.objective): a point is
\* feasible iff every constraint maps its sample to a value below zero
compute_feasibility_indicator(constraints, samples) ==
    [e \in DOMAIN samples |-> [p \in DOMAIN samples[e] |->
        \A c \in DOMAIN constraints :
            apply_constraint(constraints[c], samples[e][p]) < 0]]

\* is_feasible.any(dim=-1).all()
any_all(is_feasible) ==
    \A e \in DOMAIN is_feasible :
        \E p \in DOMAIN is_feasible[e] : is_feasible[e][p]

\* torch.where(is_feasible, obj, infeasible_value)
where(is_feasible, obj, infeasible_value) ==
    [e \in DOMAIN obj |-> [p \in DOMAIN obj[e] |->
        IF is_feasible[e][p] THEN obj[e][p] ELSE infeasible_value]]

\* a faulty variant of amax_keepdim: the first entry instead of the largest
amax_first_entry(obj) == [e \in DOMAIN obj |-> <<obj[e][1]>>]

\* obj.amax(dim=-1, keepdim=True)
amax_keepdim(obj) == [e \in DOMAIN obj |-> <<amax(obj[e])>>]

\* a faulty variant of missing_argument: neither argument is checked
missing_argument_unchecked(model, X_baseline) == "none"

\* the argument whose absence raises ValueError when the lower bound has
\* to be inferred ("none" if both are given); model is checked first
missing_argument(model, X_baseline) ==
    IF model = None THEN "model"
    ELSE IF X_baseline = None THEN "X_baseline"
    ELSE "none"

\* a faulty variant of given_infeasible_value: -inf whatever is given
given_infeasible_value_ignored(infeasible_obj, lower_bound) == NegInf

\* the value that replaces the objective of infeasible points, when some
\* element has no feasible point
given_infeasible_value(infeasible_obj, lower_bound) ==
    IF infeasible_obj # None THEN infeasible_obj[1] ELSE lower_bound

\* compute_best_feasible_objective; lower_bound is what
\* _estimate_objective_lower_bound(...).item() returns if it is called
compute_best_feasible_objective(samples, obj, constraints, model, X_baseline, infeasible_obj, lower_bound) ==
    IF constraints = None
    THEN [raised |-> "none", message |-> "none", ret |-> amax_keepdim(obj)]
    ELSE LET is_feasible == compute_feasibility_indicator(constraints[1],
                                                          samples)
             missing     == missing_argument(model, X_baseline)
         IN  IF any_all(is_feasible)
             THEN [raised |-> "none", message |-> "none",
                   ret |-> amax_keepdim(where(is_feasible, obj, NegInf))]
             ELSE IF infeasible_obj = None /\ missing # "none"
             THEN [raised |-> "ValueError", message |-> missing, ret |-> None]
             ELSE [raised |-> "none", message |-> "none",
                   ret |-> amax_keepdim(where(is_feasible, obj,
                              given_infeasible_value(infeasible_obj,
                                                     lower_bound)))]

InitCbfo ==
    /\ pc = "call"
    /\ \E sh \in Shapes :
         args \in [samples : Tensors(sh, SampleVals),
                   obj : Tensors(sh, CbfoObjVals),
                   constraints : ConstraintLists,
                   model : {None, Some("model")},
                   X_baseline : {None, Some("X_baseline")},
                   infeasible_obj : InfeasibleObjs]
    /\ locals = NoLocals
    /\ ret = None
    /\ raised = "none"

\* one call of compute_best_feasible_objective
CbfoCall ==
    /\ pc = "call"
    /\ \E lower_bound \in LowerBounds :
         LET r == compute_best_feasible_objective(
                      args.samples, args.obj, args.constraints, args.model,
                      args.X_baseline, args.infeasible_obj, lower_bound)
         IN  /\ pc' = IF r.raised = "none" THEN "return" ELSE "raise"
             /\ ret' = r.ret
             /\ raised' = r.raised
             /\ locals' = [message |-> r.message]
    /\ UNCHANGED args

NextCbfo == CbfoCall

SpecCbfo == InitCbfo /\ [][NextCbfo]_vars

\* the points of element e that satisfy every constraint
FeasiblePoints(e) ==
    {p \in DOMAIN args.obj[e] :
        \A c \in DOMAIN args.constraints[1] :
            apply_constraint(args.constraints[1][c], args.samples[e][p]) < 0}

SomeElementInfeasible ==
    \E e \in DOMAIN args.obj : FeasiblePoints(e) = {}

\* C3: with a constraints list, the value returned for an element that has
\* a feasible point is the largest obj value among its feasible points,
\* whatever the feasibility of the other elements and whatever
\* infeasible_obj is.
C3_BestFeasibleValue ==
    (pc = "return" /\ args.constraints # None) =>
        \A e \in DOMAIN args.obj :
            FeasiblePoints(e) # {} =>
                /\ \E p \in FeasiblePoints(e) : ret[e] = <<args.obj[e][p]>>
                /\ \A p \in FeasiblePoints(e) : args.obj[e][p] <= ret[e][1]

\* C4: with constraints = None the call returns, per element, the maximum
\* of obj over q (kept as a dimension of size 1) and raises nothing,
\* whatever samples, model, X_baseline and infeasible_obj are.
C4_UnconstrainedMax ==
    (pc # "call" /\ args.constraints = None) =>
        /\ pc = "return"
        /\ raised = "none"
        /\ DOMAIN ret = DOMAIN args.obj
        /\ \A e \in DOMAIN args.obj :
              /\ Len(ret[e]) = 1
              /\ \E p \in DOMAIN args.obj[e] : ret[e][1] = args.obj[e][p]
              /\ \A p \in DOMAIN args.obj[e] : args.obj[e][p] <= ret[e][1]

\* an unconstrained call without model, X_baseline and infeasible_obj whose
\* maximum is not the first of several points
C4_Witness ==
    /\ pc = "return"
    /\ args.constraints = None
    /\ args.model = None /\ args.X_baseline = None
    /\ args.infeasible_obj = None
    /\ \E e \in DOMAIN args.obj :
          Len(args.obj[e]) > 1 /\ ret[e][1] > args.obj[e][1]

\* C5: with a constraints list and infeasible_obj given, the value returned
\* for an element without a feasible point is infeasible_obj, and nothing is
\* raised even when model and X_baseline are None.
C5_InfeasibleObjReturned ==
    (pc # "call" /\ args.constraints # None /\ args.infeasible_obj # None) =>
        /\ pc = "return"
        /\ raised = "none"
        /\ \A e \in DOMAIN args.obj :
              FeasiblePoints(e) = {} => ret[e] = args.infeasible_obj

\* a call with infeasible_obj given and no model or X_baseline, in which one
\* element has no feasible point and another has one
C5_Witness ==
    /\ pc = "return"
    /\ args.constraints # None
    /\ args.infeasible_obj # None
    /\ args.model = None /\ args.X_baseline = None
    /\ \E e \in DOMAIN args.obj :
          FeasiblePoints(e) = {} /\ ret[e] = args.infeasible_obj
    /\ \E e \in DOMAIN args.obj : FeasiblePoints(e) # {}

\* C6: ValueError is raised exactly when constraints is not None, some
\* element has no feasible point, infeasible_obj is None and model or
\* X_baseline is None; the error names model when model is None.
C6_ValueErrorExactly ==
    pc # "call" =>
        /\ (pc = "raise") <=>
              /\ args.constraints # None
              /\ SomeElementInfeasible
              /\ args.infeasible_obj = None
              /\ (args.model = None \/ args.X_baseline = None)
        /\ pc = "raise" =>
              /\ raised = "ValueError"
              /\ locals.message =
                    IF args.model = None THEN "model" ELSE "X_baseline"
        /\ pc = "return" => raised = "none"

\* a call that raises with both model and X_baseline missing
C6_Witness ==
    /\ pc = "raise"
    /\ raised = "ValueError"
    /\ args.model = None /\ args.X_baseline = None
    /\ locals.message = "model"

\* ------------------------------------------------------ get_infeasible_cost
\* the model is given by its posterior at the n design points: mean and
\* variance, each n x m (m outcomes)
NumOutcomes == {1, 2}
Means == {-1, 7}
Variances == {-4, 0, 1}

\* objective callables: None (the default, Y.squeeze(-1)), "neg" is
\* -Y[..., -1] and "square" is Y[..., -1] ** 2 (the docstring's example)
Objectives == {None, Some("neg"), Some("square")}

clamp_min(x, lo) == IF x < lo THEN lo ELSE x

\* a faulty variant of clamp_max: no clamping
clamp_max_unclamped(x, hi) == x

clamp_max(x, hi) == IF x > hi THEN hi ELSE x

\* Tensor.sqrt on the perfect squares the model uses
sqrt(x) == CHOOSE r \in 0..x : r * r = x

\* posterior.mean - 6 * posterior.variance.clamp_min(0).sqrt()
six_sigma_lower(mean, variance) ==
    [i \in DOMAIN mean |-> [j \in DOMAIN mean[i] |->
        mean[i][j] - 6 * sqrt(clamp_min(variance[i][j], 0))]]

\* objective(Y, X=X): the tensor it returns and its number of dimensions
apply_objective(objective, Y) ==
    IF objective = None
    THEN IF \A i \in DOMAIN Y : Len(Y[i]) = 1
         THEN [ndim |-> 1, v |-> [i \in DOMAIN Y |-> Y[i][1]]]
         ELSE [ndim |-> 2, v |-> Y]
    ELSE IF objective[1] = "neg"
    THEN [ndim |-> 1, v |-> [i \in DOMAIN Y |-> -Y[i][Len(Y[i])]]]
    ELSE [ndim |-> 1,
          v |-> [i \in DOMAIN Y |-> Y[i][Len(Y[i])] * Y[i][Len(Y[i])]]]

\* if lb.ndim < posterior.mean.ndim: lb = lb.unsqueeze(-1)
unsqueeze_if_lower(lb, mean_ndim) ==
    IF lb.ndim < mean_ndim THEN [i \in DOMAIN lb.v |-> <<lb.v[i]>>] ELSE lb.v

\* lb.min(dim=-2).values of an n x m tensor
min_over_points(lb) ==
    [j \in DOMAIN lb[1] |-> amin([i \in DOMAIN lb |-> lb[i][j]])]

get_infeasible_cost(mean, variance, objective) ==
    LET lb  == unsqueeze_if_lower(
                   apply_objective(objective, six_sigma_lower(mean, variance)),
                   2)
        low == min_over_points(lb)
    IN  [j \in DOMAIN low |-> -clamp_max(low[j], 0)]

InitGic ==
    /\ pc = "call"
    /\ \E n \in 1..MaxPoints, m \in NumOutcomes :
         args \in [mean : Tensors(<<n, m>>, Means),
                   variance : Tensors(<<n, m>>, Variances),
                   objective : Objectives]
    /\ locals = NoLocals
    /\ ret = None
    /\ raised = "none"

\* one call of get_infeasible_cost
GicCall ==
    /\ pc = "call"
    /\ pc' = "return"
    /\ ret' = get_infeasible_cost(args.mean, args.variance, args.objective)
    /\ UNCHANGED <<args, locals, raised>>

NextGic == GicCall

SpecGic == InitGic /\ [][NextGic]_vars

\* L(x) per outcome: the objective of mean(x) - 6 * sqrt(max(variance(x), 0))
LowerValues ==
    unsqueeze_if_lower(
        apply_objective(args.objective,
            [i \in DOMAIN args.mean |-> [j \in DOMAIN args.mean[i] |->
                LET v == args.variance[i][j]
                IN  args.mean[i][j] - 6 * sqrt(IF v < 0 THEN 0 ELSE v)]]),
        2)

\* C7: per outcome, get_infeasible_cost returns M = max(0, -min_x L(x)):
\* M >= 0, -M <= L(x) for every design point x, and M is 0 or -L(x) for
\* some x; negative variances count as 0.
C7_InfeasibleCost ==
    pc = "return" =>
        /\ DOMAIN ret = DOMAIN LowerValues[1]
        /\ \A j \in DOMAIN ret :
              /\ ret[j] >= 0
              /\ \A i \in DOMAIN LowerValues : -ret[j] <= LowerValues[i][j]
              /\ \/ ret[j] = 0 /\ \A i \in DOMAIN LowerValues :
                                     LowerValues[i][j] >= 0
                 \/ \E i \in DOMAIN LowerValues : ret[j] = -LowerValues[i][j]

\* a call with a negative variance, one outcome whose cost is positive and
\* one whose lower values are all positive (cost 0)
C7_Witness ==
    /\ pc = "return"
    /\ \E i \in DOMAIN args.variance : \E j \in DOMAIN args.variance[i] :
          args.variance[i][j] < 0
    /\ \E j \in DOMAIN ret : ret[j] > 0
    /\ \E j \in DOMAIN ret :
          ret[j] = 0 /\ \A i \in DOMAIN LowerValues : LowerValues[i][j] > 0

\* ------------------------------------------ _estimate_objective_lower_bound
\* the number of convex combinations drawn
NumConvex == 32

\* torch.rand draws in [0, 1), here in quarters: 1 is 0.25, 3 is 0.75
RandVals == {1, 3}

\* the draws the model covers: the first k rows of the 32 x n matrix are
\* one row of draws, the others another
RandDraws(n) ==
    {[p \in 1..NumConvex |-> IF p <= k THEN a ELSE b] :
        k \in 1..NumConvex, a \in [1..n -> RandVals], b \in [1..n -> RandVals]}

RECURSIVE SumSeq(_)
SumSeq(v) == IF v = <<>> THEN 0 ELSE v[1] + SumSeq(Tail(v))

RECURSIVE ProdSeq(_)
ProdSeq(v) == IF v = <<>> THEN 1 ELSE v[1] * ProdSeq(Tail(v))

\* convex_weights.sum(dim=0, keepdim=True): one sum per column, over the rows
weights_sum(convex_weights) ==
    [i \in DOMAIN convex_weights[1] |->
        SumSeq([p \in DOMAIN convex_weights |-> convex_weights[p][i]])]

\* convex_weights / weights_sum, as fractions <<numerator, denominator>>
normalize(convex_weights) ==
    LET ws == weights_sum(convex_weights)
    IN  [p \in DOMAIN convex_weights |-> [i \in DOMAIN convex_weights[p] |->
            <<convex_weights[p][i], ws[i]>>]]

\* the common denominator of the entries of a row of fractions
Denominator(w) == ProdSeq([i \in DOMAIN w |-> w[i][2]])

\* convex_weights @ X: the numerators of the entries over Denominator(w)
matmul(convex_weights, X) ==
    [p \in DOMAIN convex_weights |-> [c \in DOMAIN X[1] |->
        LET w == convex_weights[p]
        IN  SumSeq([i \in DOMAIN w |->
                       w[i][1] * (Denominator(w) \div w[i][2]) * X[i][c]])]]

\* the posterior mean of a model that is linear in the first coordinate,
\* with slope model.slope and no posterior variance (one outcome)
posterior_mean(model, X) == [p \in DOMAIN X |-> <<model.slope * X[p][1]>>]

\* _estimate_objective_lower_bound given the torch.rand draws; the result
\* is the numerator over the common denominator of the weights
estimate_objective_lower_bound(model, X, rand) ==
    LET convex_weights == normalize(rand)
        points         == matmul(convex_weights, X)
        mean           == posterior_mean(model, points)
        variance       == [p \in DOMAIN mean |-> <<0>>]
        cost           == get_infeasible_cost(mean, variance, None)
    IN  [convex_weights |-> convex_weights,
         points |-> points,
         ret |-> <<-cost[1], Denominator(convex_weights[1])>>]

InitLb ==
    /\ pc = "call"
    /\ \E n \in 1..MaxBaseline :
         args \in [X : [1..n -> [1..1 -> {1, 2}]],
                   model : [slope : {-1, 1}]]
    /\ locals = NoLocals
    /\ ret = None
    /\ raised = "none"

\* one call of _estimate_objective_lower_bound
LbCall ==
    /\ pc = "call"
    /\ \E rand \in RandDraws(Len(args.X)) :
         LET r == estimate_objective_lower_bound(args.model, args.X, rand)
         IN  /\ pc' = "return"
             /\ ret' = r.ret
             /\ locals' = [convex_weights |-> r.convex_weights,
                           points |-> r.points]
    /\ UNCHANGED <<args, raised>>

NextLb == LbCall

SpecLb == InitLb /\ [][NextLb]_vars

\* C8: each of the 32 points the model is evaluated at is a convex
\* combination of the rows of X: its weights are non-negative and sum to 1,
\* so each coordinate lies between the least and the largest of X's rows.
C8_ConvexCombinations ==
    pc = "return" =>
        /\ Len(locals.points) = NumConvex
        /\ \A p \in DOMAIN locals.convex_weights :
              LET w == locals.convex_weights[p]
                  D == Denominator(w)
              IN  /\ \A i \in DOMAIN w : w[i][1] >= 0 /\ w[i][2] > 0
                  /\ SumSeq([i \in DOMAIN w |-> w[i][1] * (D \div w[i][2])]) = D
                  /\ \A c \in DOMAIN args.X[1] :
                        /\ \E i \in DOMAIN args.X :
                              args.X[i][c] * D <= locals.points[p][c]
                        /\ \E i \in DOMAIN args.X :
                              locals.points[p][c] <= args.X[i][c] * D

\* ----------------------------------------------- project_to_target_fidelity
\* X is batch_shape x q x d; the batch dimensions are flattened into the
\* rows, so a shape is <<rows, d>>.  target_fidelities is None or a dict,
\* given as the sequence of its <<key, value>> items in insertion order
ProjVals == {0, 5}
TargetVals == {1, 7}

\* the dicts over the column indices -d..d-1 with at most MaxTargets items
TargetDicts(d) ==
    {tf \in SeqsOf((-d..(d - 1)) \X TargetVals, 0, MaxTargets) :
        \A a, b \in DOMAIN tf : a # b => tf[a][1] # tf[b][1]}

\* a faulty variant of normalize_index: negative keys are kept
normalize_index_unnormalized(k, d) == k

\* k if k >= 0 else d + k
normalize_index(k, d) == IF k >= 0 THEN k ELSE d + k

\* tfs = {k if k >= 0 else d + k: v for k, v in target_fidelities.items()}:
\* the items that set key i; the last one is the dict's value for i
tfs_items(target_fidelities, i, d) ==
    {a \in DOMAIN target_fidelities :
        normalize_index(target_fidelities[a][1], d) = i}

tfs_value(target_fidelities, i, d) ==
    LET items == tfs_items(target_fidelities, i, d)
        last  == CHOOSE a \in items : \A b \in items : b <= a
    IN  target_fidelities[last][2]

\* project_to_target_fidelity; column c here is index c - 1 in the code
project_to_target_fidelity(X, target_fidelities) ==
    LET tf == IF target_fidelities = None THEN <<<<-1, 1>>>>
              ELSE target_fidelities[1]
        d  == Len(X[1])
    IN  [r \in DOMAIN X |-> [c \in 1..d |->
            IF tfs_items(tf, c - 1, d) = {} THEN X[r][c]
            ELSE tfs_value(tf, c - 1, d) * 1]]

InitProject ==
    /\ pc = "call"
    /\ \E sh \in Shapes :
         args \in [X : Tensors(sh, ProjVals),
                   target_fidelities :
                       {None} \cup {Some(tf) : tf \in TargetDicts(sh[2])}]
    /\ locals = NoLocals
    /\ ret = None
    /\ raised = "none"

\* one call of project_to_target_fidelity; torch.stack builds a new tensor,
\* X is only read
ProjectCall ==
    /\ pc = "call"
    /\ pc' = "return"
    /\ ret' = project_to_target_fidelity(args.X, args.target_fidelities)
    /\ locals' = [X_before |-> args.X]
    /\ UNCHANGED <<args, raised>>

NextProject == ProjectCall

SpecProject == InitProject /\ [][NextProject]_vars

\* the items of target_fidelities in effect ({-1: 1.0} when omitted)
TargetItems ==
    IF args.target_fidelities = None THEN {<<-1, 1>>}
    ELSE Range(args.target_fidelities[1])

\* the column (1-based) an item's key names in a tensor of d columns
ColumnOf(item, d) == IF item[1] < 0 THEN d + item[1] + 1 ELSE item[1] + 1

\* C9: project_to_target_fidelity returns a tensor of X's shape in which
\* every column listed in target_fidelities holds its target value in every
\* row and every other column is that of X; with target_fidelities omitted
\* only the last column is set, to 1.0.  X is not modified.
C9_ProjectToTargets ==
    pc = "return" =>
        LET d == Len(args.X[1])
        IN  /\ DOMAIN ret = DOMAIN args.X
            /\ \A r \in DOMAIN ret : DOMAIN ret[r] = 1..d
            /\ \A item \in TargetItems :
                  (\A other \in TargetItems :
                      ColumnOf(other, d) = ColumnOf(item, d) => other = item)
                  => \A r \in DOMAIN ret : ret[r][ColumnOf(item, d)] = item[2]
            /\ \A c \in 1..d :
                  (\A item \in TargetItems : ColumnOf(item, d) # c)
                  => \A r \in DOMAIN ret : ret[r][c] = args.X[r][c]
            /\ args.X = locals.X_before

\* a call with a dict that names one column by a negative index and another
\* by a non-negative one and leaves a third column alone
C9_Witness ==
    /\ pc = "return"
    /\ args.target_fidelities # None
    /\ \E a, b \in TargetItems :
          /\ a[1] < 0 /\ b[1] >= 0
          /\ ColumnOf(a, Len(args.X[1])) # ColumnOf(b, Len(args.X[1]))
          /\ ret[1][ColumnOf(a, Len(args.X[1]))] = a[2]
    /\ \E c \in DOMAIN ret[1] :
          \A item \in TargetItems : ColumnOf(item, Len(args.X[1])) # c

\* ------------------------------------------------ expand_trace_observations
\* X is q x d (one t-batch).  Scaled values are fractions
\* <<numerator, denominator>>
ExpandVals == {0, 1, 2}

\* fidelity_dims: None, or one or two distinct column indices in -d..d-1
FidelityDims(d) ==
    {None} \cup
    {Some(fd) : fd \in {f \in SeqsOf(-d..(d - 1), 1, 2) :
                           \A a, b \in DOMAIN f : a # b => f[a] # f[b]}}

\* a faulty variant of linspace: the values run from end to start
linspace_from_end(sn, en, sd, steps) ==
    [j \in 1..steps |->
        IF steps = 1 THEN <<en, sd>>
        ELSE <<en * (steps - 1) + (j - 1) * (sn - en), sd * (steps - 1)>>]

\* torch.linspace(start, end, steps) for start = sn/sd and end = en/sd: the
\* first value is start, the others are equally spaced up to end
linspace(sn, en, sd, steps) ==
    [j \in 1..steps |->
        IF steps = 1 THEN <<sn, sd>>
        ELSE <<sn * (steps - 1) + (j - 1) * (en - sn), sd * (steps - 1)>>]

\* torch.repeat_interleave(sf, q): each element q times
repeat_interleave(sf, q) ==
    [r \in 1..(Len(sf) * q) |-> sf[((r - 1) \div q) + 1]]

\* a faulty variant of repeat_rows: each row repeated in place
repeat_rows_interleaved(X, times) ==
    [r \in 1..(Len(X) * times) |-> X[((r - 1) \div times) + 1]]

\* X.repeat(1 + num_trace_obs, 1): X tiled along the q dimension
repeat_rows(X, times) ==
    [r \in 1..(Len(X) * times) |-> X[((r - 1) % Len(X)) + 1]]

\* a faulty variant of return_unexpanded: X tiled once more
return_unexpanded_tiled(X) == repeat_rows(X, 2)

\* return X (no trace observations): the argument itself
return_unexpanded(X) == X

\* the columns (1-based) that the index list fidelity_dims selects
selected_columns(fidelity_dims, d) ==
    {(IF fidelity_dims[a] < 0 THEN d + fidelity_dims[a] ELSE fidelity_dims[a])
        + 1 : a \in DOMAIN fidelity_dims}

\* expand_trace_observations for num_trace_obs >= 1
expand_trace_observations(X, fidelity_dims, num_trace_obs) ==
    LET fd         == IF fidelity_dims = None THEN <<-1>> ELSE fidelity_dims[1]
        q          == Len(X)
        d          == Len(X[1])
        X_expanded == repeat_rows(X, 1 + num_trace_obs)
        \* s_pad = 1 / (num_trace_obs + 1); linspace(1 - s_pad, s_pad, ...)
        sf         == repeat_interleave(
                          linspace(num_trace_obs, 1, num_trace_obs + 1,
                                   num_trace_obs), q)
        scale_fac  == [r \in DOMAIN X_expanded |-> [c \in 1..d |->
                          IF r > q /\ c \in selected_columns(fd, d)
                          THEN sf[r - q] ELSE <<1, 1>>]]
    IN  [r \in DOMAIN X_expanded |-> [c \in 1..d |->
            <<scale_fac[r][c][1] * X_expanded[r][c], scale_fac[r][c][2]>>]]

InitExpand ==
    /\ pc = "call"
    /\ \E sh \in Shapes :
         args \in [X : Tensors(sh, ExpandVals),
                   fidelity_dims : FidelityDims(sh[2]),
                   num_trace_obs : 0..MaxTrace]
    /\ locals = NoLocals
    /\ ret = None
    /\ raised = "none"

\* one call of expand_trace_observations; without trace observations X
\* itself is returned
ExpandCall ==
    /\ pc = "call"
    /\ pc' = "return"
    /\ ret' = IF args.num_trace_obs = 0 THEN return_unexpanded(args.X)
              ELSE expand_trace_observations(args.X, args.fidelity_dims,
                                             args.num_trace_obs)
    /\ locals' = [X_before |-> args.X]
    /\ UNCHANGED <<args, raised>>

NextExpand == ExpandCall

SpecExpand == InitExpand /\ [][NextExpand]_vars

\* the fidelity columns (1-based) of the call
FidelityColumns ==
    LET d == Len(args.X[1])
    IN  IF args.fidelity_dims = None THEN {d}
        ELSE {(IF k < 0 THEN d + k ELSE k) + 1 :
                 k \in Range(args.fidelity_dims[1])}

C11_ExpandedShapeAndFrame ==
    (pc = "return" /\ args.num_trace_obs >= 1) =>
        LET K == args.num_trace_obs
            q == Len(args.X)
            d == Len(args.X[1])
        IN  /\ DOMAIN ret = 1..(q + K * q)
            /\ \A r \in DOMAIN ret : DOMAIN ret[r] = 1..d
            /\ \A i \in 1..q : \A c \in 1..d :
                  ret[i][c][1] = args.X[i][c] * ret[i][c][2]
            /\ \A j \in 1..K : \A i \in 1..q :
                  \A c \in (1..d) \ FidelityColumns :
                      ret[j * q + i][c][1]
                          = args.X[i][c] * ret[j * q + i][c][2]
            /\ args.X = locals.X_before

\* a call with two points that differ in a non-fidelity column, and at
\* least one trace observation
C11_Witness ==
    /\ pc = "return"
    /\ args.num_trace_obs >= 1
    /\ Len(args.X) = 2
    /\ Len(ret) = 2 + 2 * args.num_trace_obs
    /\ \E c \in (1..Len(args.X[1])) \ FidelityColumns :
          /\ args.X[1][c] # args.X[2][c]
          /\ ret[4][c] = <<args.X[2][c], 1>>

\* C12: with num_trace_obs = 0, expand_trace_observations returns X
\* unchanged (same shape, same values), whatever X and fidelity_dims are,
\* fidelity_dims omitted included.
C12_NoTraceObservations ==
    (pc = "return" /\ args.num_trace_obs = 0) =>
        /\ ret = args.X
        /\ args.X = locals.X_before

\* a call without trace observations and without fidelity_dims, on two
\* points
C12_Witness ==
    /\ pc = "return"
    /\ args.num_trace_obs = 0
    /\ args.fidelity_dims = None
    /\ Len(args.X) = 2
    /\ ret = args.X

\* ------------------------------------------------- project_to_sample_points
\* X is batch_shape x 1 x d, the batch dimensions flattened into one: a
\* sequence of t-batches, each a sequence of one point.  sample_points is
\* p x d' with d' < d
PointVals == {0, 1}
SamplePointVals == {2, 3}

\* X.repeat(*(1 for _ in batch_shape), p, 1): the point of each t-batch
\* p times
repeat_q(X, p) ==
    [b \in DOMAIN X |-> [k \in 1..(Len(X[b]) * p) |->
        X[b][((k - 1) % Len(X[b])) + 1]]]

\* a faulty variant of trailing_columns: the leading d' columns
trailing_columns_leading(d, d_prime) == 1..d_prime

\* the columns (1-based) that the slice [..., -d_prime:] selects
trailing_columns(d, d_prime) == (d - d_prime + 1)..d

project_to_sample_points(X, sample_points) ==
    LET p       == Len(sample_points)
        d_prime == Len(sample_points[1])
        d       == Len(X[1][1])
        X_new   == repeat_q(X, p)
        cols    == trailing_columns(d, d_prime)
        first   == CHOOSE c \in cols : \A c2 \in cols : c <= c2
    IN  \* X_new[..., -d_prime:] = sample_points
        [b \in DOMAIN X_new |-> [k \in DOMAIN X_new[b] |-> [c \in 1..d |->
            IF c \in cols THEN sample_points[k][c - first + 1]
            ELSE X_new[b][k][c]]]]

InitSample ==
    /\ pc = "call"
    /\ \E sh \in Shapes, sp \in Shapes :
         /\ sp[2] < sh[2]
         /\ args \in [X : [1..sh[1] -> [1..1 -> [1..sh[2] -> PointVals]]],
                      sample_points : Tensors(sp, SamplePointVals)]
    /\ locals = NoLocals
    /\ ret = None
    /\ raised = "none"

\* one call of project_to_sample_points; repeat builds the tensor that is
\* written to, X is only read
SampleCall ==
    /\ pc = "call"
    /\ pc' = "return"
    /\ ret' = project_to_sample_points(args.X, args.sample_points)
    /\ locals' = [X_before |-> args.X]
    /\ UNCHANGED <<args, raised>>

NextSample == SampleCall

SpecSample == InitSample /\ [][NextSample]_vars

\* C13: project_to_sample_points returns batch_shape x p x d; in every
\* t-batch, row k has sample_points[k] in its trailing d' columns and the
\* leading d - d' columns of X's single point.  X is not modified.
C13_SamplePointsProjected ==
    pc = "return" =>
        LET p  == Len(args.sample_points)
            dp == Len(args.sample_points[1])
            d  == Len(args.X[1][1])
        IN  /\ DOMAIN ret = DOMAIN args.X
            /\ \A b \in DOMAIN ret :
                  /\ DOMAIN ret[b] = 1..p
                  /\ \A k \in 1..p :
                        /\ DOMAIN ret[b][k] = 1..d
                        /\ \A c \in 1..dp :
                              ret[b][k][d - dp + c] = args.sample_points[k][c]
                        /\ \A c \in 1..(d - dp) :
                              ret[b][k][c] = args.X[b][1][c]
            /\ args.X = locals.X_before

\* a call with two t-batches and two different sample points
C13_Witness ==
    /\ pc = "return"
    /\ Len(args.X) >= 2
    /\ Len(args.sample_points) >= 2
    /\ args.sample_points[1] # args.sample_points[2]
    /\ ret[2][2][Len(args.X[1][1])]
          = args.sample_points[2][Len(args.sample_points[2])]

\* C14: for X of n >= 1 rows prune_inferior_points raises ValueError if and
\* only if max_frac does not satisfy 0 < max_frac <= 1, and it raises
\* before the posterior is queried or a sample drawn.
C14_ValueErrorIffBadMaxFrac ==
    pc # "call"
    =>  /\ (pc = "raise" /\ raised = "ValueError") <=>
              ~(0 < args.max_frac[1] /\ args.max_frac[1] <= args.max_frac[2])
        /\ pc = "raise" => (~locals.posterior_queried /\ ret = None)
        /\ pc = "return" => (raised = "none" /\ locals.posterior_queried)

\* a call with several rows that raises because max_frac is above 1
C14_Witness ==
    /\ pc = "raise"
    /\ raised = "ValueError"
    /\ Len(args.X) >= 2
    /\ args.max_frac[1] > args.max_frac[2]
    /\ ~locals.posterior_queried

\* ------------------------- prune_inferior_points: batched inputs and models
MaxBatch == 2      \* size of a batch dimension of the model
MaxObjNumel == 8   \* entries of obj_vals

\* the values the imported MCMC_DIM may have: a dimension of obj_vals
McmcDims == {-3, -2}

\* objective values; multiples of 12, so that a mean over up to four
\* entries is an integer
MeanVals == {0, 12}

\* the marginalize_dim passed
MarginalizeDims == {None, Some(-3), Some(-2), Some(-1)}

\* the model: whether is_fully_bayesian(model) holds, and its batch shape
PruneModels ==
    [fully_bayesian : BOOLEAN, batch_shape : SeqsOf(1..MaxBatch, 0, 2)]

\* a faulty variant of batched_input: the check is left out
batched_input_unchecked(X_ndim) == FALSE

\* X.ndim > 2
batched_input(X_ndim) == X_ndim > 2

\* marginalize_dim after the default for fully Bayesian models is applied
effective_marginalize_dim(marginalize_dim, model, MCMC_DIM) ==
    IF marginalize_dim = None /\ model.fully_bayesian
    THEN Some(MCMC_DIM)
    ELSE marginalize_dim

\* obj_vals.ndim: sample dimension, the model's batch dimensions, n
obj_vals_ndim(model) == 1 + Len(model.batch_shape) + 1

\* obj_vals.mean(dim=dim) of a 3-dimensional obj_vals
mean(obj_vals, dim) ==
    LET S == DOMAIN obj_vals
        B == DOMAIN obj_vals[1]
        N == DOMAIN obj_vals[1][1]
    IN  CASE dim = -3 ->
               [b \in B |-> [i \in N |->
                   SumSeq([s \in S |-> obj_vals[s][b][i]]) \div Len(obj_vals)]]
          [] dim = -2 ->
               [s \in S |-> [i \in N |->
                   SumSeq([b \in B |-> obj_vals[s][b][i]]) \div Len(obj_vals[1])]]
          [] dim = -1 ->
               [s \in S |-> [b \in B |->
                   SumSeq([i \in N |-> obj_vals[s][b][i]]) \div Len(obj_vals[1][1])]]

\* whether obj_vals is neither 2-dimensional nor reducible to it
unsupported_obj_vals(ndim, marginalize_dim) ==
    ndim > 2 /\ ~(ndim = 3 /\ marginalize_dim # None)

\* the values objective(samples, X=X) may take, for 2 or 3 dimensions
DrawnObjVals(model, n) ==
    IF Len(model.batch_shape) = 0
    THEN [1..NumSamples -> [1..n -> MeanVals]]
    ELSE [1..NumSamples -> [1..model.batch_shape[1] -> [1..n -> MeanVals]]]

\* whether X[idcs] reads a row that X does not have
index_out_of_range(X, obj_vals) ==
    \E s \in DOMAIN obj_vals : argmax(obj_vals[s]) > Len(X)

InitPruneBatched ==
    /\ pc = "call"
    /\ args \in [X : SeqsOf([1..1 -> Coords], 1, MaxN), X_ndim : {2, 3},
                 max_frac : MaxFracs, marginalize_dim : MarginalizeDims,
                 model : PruneModels, MCMC_DIM : McmcDims]
    /\ NumSamples * Len(args.X) * ProdSeq(args.model.batch_shape) <= MaxObjNumel
    /\ locals = NoLocals
    /\ ret = None
    /\ raised = "none"

\* one call of prune_inferior_points with a possibly batched X and a
\* possibly batched model
PruneBatchedCall ==
    /\ pc = "call"
    /\ LET marginalize_dim == effective_marginalize_dim(args.marginalize_dim,
                                                       args.model, args.MCMC_DIM)
           ndim == obj_vals_ndim(args.model)
       IN  IF batched_input(args.X_ndim)
           THEN /\ pc' = "raise"
                /\ raised' = "UnsupportedError"
                /\ locals' = [max_frac_validated |-> FALSE,
                              posterior_queried |-> FALSE]
                /\ UNCHANGED ret
           ELSE IF max_frac_invalid(args.X, args.max_frac)
           THEN /\ pc' = "raise"
                /\ raised' = "ValueError"
                /\ locals' = [max_frac_validated |-> TRUE,
                              posterior_queried |-> FALSE]
                /\ UNCHANGED ret
           ELSE IF unsupported_obj_vals(ndim, marginalize_dim)
           THEN /\ pc' = "raise"
                /\ raised' = "UnsupportedError"
                /\ locals' = [max_frac_validated |-> TRUE,
                              posterior_queried |-> TRUE]
                /\ UNCHANGED ret
           ELSE \E drawn \in DrawnObjVals(args.model, Len(args.X)) :
                  LET obj_vals == IF ndim > 2
                                  THEN mean(drawn, marginalize_dim[1])
                                  ELSE drawn
                      u == unique([s \in DOMAIN obj_vals |->
                                      argmax(obj_vals[s])])
                  IN  \E order_idcs \in sort_descending(u.counts) :
                        /\ locals' = [max_frac_validated |-> TRUE,
                                      posterior_queried |-> TRUE,
                                      drawn |-> drawn,
                                      obj_vals |-> obj_vals,
                                      order_idcs |-> order_idcs]
                        /\ IF index_out_of_range(args.X, obj_vals)
                           THEN /\ pc' = "raise"
                                /\ raised' = "IndexError"
                                /\ UNCHANGED ret
                           ELSE /\ pc' = "return"
                                /\ ret' = prune_inferior_points(args.X,
                                              args.max_frac, obj_vals, order_idcs)
                                /\ UNCHANGED raised
    /\ UNCHANGED args

NextPruneBatched == PruneBatchedCall

SpecPruneBatched == InitPruneBatched /\ [][NextPruneBatched]_vars

\* whether a marginalize_dim is in effect in the call: given explicitly, or
\* defaulted because the model is fully Bayesian
MarginalizeDimInEffect ==
    args.marginalize_dim # None \/ args.model.fully_bayesian

\* the dimension averaged over when one is in effect
MarginalizedDim ==
    IF args.marginalize_dim # None THEN args.marginalize_dim[1]
    ELSE args.MCMC_DIM

\* C15: prune_inferior_points raises UnsupportedError for a batched X (more
\* than 2 dimensions), before max_frac is validated and before the model is
\* queried.  It also raises UnsupportedError when the objective values have
\* more than 2 dimensions, unless they have exactly 3 and a marginalize_dim
\* is in effect; then the values are averaged over that dimension and the
\* pruning goes on with the averages.
C15_UnsupportedErrors ==
    pc # "call" =>
        LET ndim == 2 + Len(args.model.batch_shape)
        IN  /\ args.X_ndim > 2 =>
                  /\ pc = "raise" /\ raised = "UnsupportedError"
                  /\ ~locals.max_frac_validated
                  /\ ~locals.posterior_queried
            /\ (args.X_ndim <= 2 /\ locals.posterior_queried) =>
                  /\ (ndim > 2 /\ ~(ndim = 3 /\ MarginalizeDimInEffect))
                        => (pc = "raise" /\ raised = "UnsupportedError")
                  /\ (ndim = 3 /\ MarginalizeDimInEffect)
                        => /\ raised # "UnsupportedError"
                           /\ locals.obj_vals
                                 = mean(locals.drawn, MarginalizedDim)
                  /\ ndim = 2
                        => /\ raised # "UnsupportedError"
                           /\ locals.obj_vals = locals.drawn
            /\ raised = "UnsupportedError" =>
                  \/ args.X_ndim > 2
                  \/ (ndim > 2 /\ ~(ndim = 3 /\ MarginalizeDimInEffect))

\* a call on a fully Bayesian model with one batch dimension and no
\* marginalize_dim given, which averages the objective values and returns
C15_Witness ==
    /\ pc = "return"
    /\ args.marginalize_dim = None
    /\ args.model.fully_bayesian
    /\ args.model.batch_shape = <<2>>
    /\ locals.obj_vals = mean(locals.drawn, args.MCMC_DIM)
    /\ \E s \in DOMAIN locals.obj_vals :
          \E i \in DOMAIN locals.obj_vals[s] :
              locals.obj_vals[s][i] \notin MeanVals

\* ------------------------------------------ multi-fidelity covariance module
MaxDim == 3          \* columns of the (transformed) training inputs
MaxFidelities == 2   \* entries of data_fidelities

\* column indices of a dim-column input, negative ones counting from the end
ColumnIndices(dim) == (-dim)..(dim - 1)

\* an optional column index
OptionalIndices(dim) == {None} \cup {Some(k) : k \in ColumnIndices(dim)}

\* the data_fidelities passed: None, or a list or tuple of column indices
DataFidelities(dim) ==
    {None} \cup
    {Some([kind |-> kind, items |-> items]) :
        kind \in {"list", "tuple"},
        items \in SeqsOf(ColumnIndices(dim), 0, MaxFidelities)}

\* what is called: one of the two constructors, or the helper itself
Callees ==
    {"SingleTaskMultiFidelityGP", "FixedNoiseMultiFidelityGP",
     "_setup_multifidelity_covar_module"}

\* a negative index made non-negative: dim + index
normalize_fidelity(k, dim) == IF k < 0 THEN dim + k ELSE k

\* data_fidelities after the loop that normalises its entries in place
normalize_in_place(items, dim) ==
    [i \in DOMAIN items |-> normalize_fidelity(items[i], dim)]

\* whether the loop assigns to an entry of data_fidelities
assigns_entry(items) == \E i \in DOMAIN items : items[i] < 0

\* leading_dims
leading_dims(iteration_fidelity) ==
    IF iteration_fidelity # None THEN <<iteration_fidelity[1]>> ELSE <<>>

\* a faulty variant of trailing_dims: all data fidelities in one entry
trailing_dims_joined(data_fidelities) ==
    IF data_fidelities # None THEN <<data_fidelities[1]>> ELSE << <<>> >>

\* trailing_dims
trailing_dims(data_fidelities) ==
    IF data_fidelities # None
    THEN [i \in DOMAIN data_fidelities[1] |-> <<data_fidelities[1][i]>>]
    ELSE << <<>> >>

\* the kernels of the linear_truncated branch
linear_truncated_kernels(iteration_fidelity, data_fidelities) ==
    LET tdims == trailing_dims(data_fidelities)
    IN  [t \in DOMAIN tdims |->
            [kernel |-> "LinearTruncatedFidelityKernel",
             dims   |-> leading_dims(iteration_fidelity) \o tdims[t]]]

\* the kernels of the default branch
default_kernels(dim, iteration_fidelity, data_fidelities) ==
    LET items == IF data_fidelities # None THEN data_fidelities[1] ELSE <<>>
        non_active_dims == Range(items) \cup Range(leading_dims(iteration_fidelity))
        active_dimsX == SortedSeq((0..(dim - 1)) \ non_active_dims)
    IN  <<[kernel |-> "RBFKernel", dims |-> active_dimsX]>>
        \o [k \in DOMAIN leading_dims(iteration_fidelity) |->
               [kernel |-> "ExponentialDecayKernel",
                dims   |-> leading_dims(iteration_fidelity)]]
        \o [i \in DOMAIN items |->
               [kernel |-> "DownsamplingKernel", dims |-> <<items[i]>>]]

\* the kernels _setup_multifidelity_covar_module multiplies, from the
\* normalised iteration_fidelity and data_fidelities (Some(items) or None)
setup_multifidelity_covar_module(dim, iteration_fidelity, data_fidelities, linear_truncated) ==
    IF linear_truncated
    THEN linear_truncated_kernels(iteration_fidelity, data_fidelities)
    ELSE default_kernels(dim, iteration_fidelity, data_fidelities)

\* the constructors' data_fidelities after the deprecated data_fidelity is
\* folded in: a new one-element list, or the list passed
constructor_data_fidelities(data_fidelities, data_fidelity) ==
    IF data_fidelity # None
    THEN Some([kind |-> "list", items |-> <<data_fidelity[1]>>])
    ELSE data_fidelities

InitCovar ==
    /\ pc = "call"
    /\ \E dim \in 2..MaxDim :
          args \in [callee : Callees, dim : {dim},
                    iteration_fidelity : OptionalIndices(dim),
                    data_fidelities : DataFidelities(dim),
                    data_fidelity : OptionalIndices(dim),
                    linear_truncated : BOOLEAN]
    /\ args.callee = "_setup_multifidelity_covar_module"
          => args.data_fidelity = None
    /\ locals = NoLocals
    /\ ret = None
    /\ raised = "none"

\* one construction of a multi-fidelity GP, or one call of the helper: the
\* constructor's checks, then _setup_multifidelity_covar_module, which
\* normalises negative indices (writing into the data_fidelities object it
\* was given) and builds the kernels
CovarCall ==
    /\ pc = "call"
    /\ locals' = [data_fidelities_before |-> args.data_fidelities]
    /\ LET constructed == args.callee # "_setup_multifidelity_covar_module"
           data_fidelities ==
               IF constructed
               THEN constructor_data_fidelities(args.data_fidelities,
                                                args.data_fidelity)
               ELSE args.data_fidelities
           iteration_fidelity ==
               IF args.iteration_fidelity # None
               THEN Some(normalize_fidelity(args.iteration_fidelity[1], args.dim))
               ELSE None
       IN  IF constructed /\ args.data_fidelity # None
                          /\ args.data_fidelities # None
           THEN /\ pc' = "raise"
                /\ raised' = "ValueError"
                /\ UNCHANGED <<args, ret>>
           ELSE IF constructed /\ args.iteration_fidelity = None
                               /\ data_fidelities = None
           THEN /\ pc' = "raise"
                /\ raised' = "UnsupportedError"
                /\ UNCHANGED <<args, ret>>
           ELSE IF /\ data_fidelities # None
                   /\ data_fidelities[1].kind = "tuple"
                   /\ assigns_entry(data_fidelities[1].items)
           THEN /\ pc' = "raise"
                /\ raised' = "TypeError"
                /\ UNCHANGED <<args, ret>>
           ELSE LET items == IF data_fidelities # None
                             THEN Some(normalize_in_place(
                                          data_fidelities[1].items, args.dim))
                             ELSE None
                IN  /\ pc' = "return"
                    /\ ret' = [kernels |->
                                 setup_multifidelity_covar_module(args.dim,
                                     iteration_fidelity, items,
                                     args.linear_truncated)]
                    /\ args' = IF args.data_fidelities # None
                                  /\ args.data_fidelity = None
                               THEN [args EXCEPT !.data_fidelities =
                                       Some([kind  |-> data_fidelities[1].kind,
                                             items |-> items[1]])]
                               ELSE args
                    /\ UNCHANGED raised

NextCovar == CovarCall

SpecCovar == InitCovar /\ [][NextCovar]_vars

\* the column an index of the call stands for, as a non-negative index
Column(k) == IF k < 0 THEN args.dim + k ELSE k

\* the data fidelity indices the call is given, in order; none when
\* data_fidelities is None
GivenDataFidelities ==
    IF locals.data_fidelities_before # None
    THEN locals.data_fidelities_before[1].items
    ELSE IF args.data_fidelity # None THEN <<args.data_fidelity[1]>>
    ELSE <<>>

DataFidelitiesIsNone ==
    locals.data_fidelities_before = None /\ args.data_fidelity = None

\* the fidelity_dims claimed for the kernel of data fidelity index k
ExpectedFidelityDims(k) ==
    (IF args.iteration_fidelity # None
     THEN <<Column(args.iteration_fidelity[1])>> ELSE <<>>) \o <<Column(k)>>

\* C16: with linear_truncated = True the product has
\* LinearTruncatedFidelityKernels only: one per entry of data_fidelities, in
\* list order, the i-th with fidelity_dims = [iteration_fidelity (if given),
\* data_fidelities[i]] (as columns); when data_fidelities is None there is
\* exactly one kernel, with fidelity_dims = [iteration_fidelity].  No
\* fidelity_dims has more than two entries.
C16_LinearTruncatedKernels ==
    (pc = "return" /\ args.linear_truncated) =>
        /\ \A t \in DOMAIN ret.kernels :
              /\ ret.kernels[t].kernel = "LinearTruncatedFidelityKernel"
              /\ Len(ret.kernels[t].dims) <= 2
        /\ ~DataFidelitiesIsNone =>
              /\ Len(ret.kernels) = Len(GivenDataFidelities)
              /\ \A i \in DOMAIN GivenDataFidelities :
                    ret.kernels[i].dims
                        = ExpectedFidelityDims(GivenDataFidelities[i])
        /\ DataFidelitiesIsNone =>
              /\ Len(ret.kernels) = 1
              /\ ret.kernels[1].dims
                    = IF args.iteration_fidelity # None
                      THEN <<Column(args.iteration_fidelity[1])>> ELSE <<>>

\* a construction with a negative iteration fidelity index and two data
\* fidelity indices, one of them negative
C16_Witness ==
    /\ pc = "return"
    /\ args.linear_truncated
    /\ args.callee = "SingleTaskMultiFidelityGP"
    /\ args.iteration_fidelity # None
    /\ args.iteration_fidelity[1] < 0
    /\ Len(GivenDataFidelities) = 2
    /\ GivenDataFidelities[1] < 0
    /\ GivenDataFidelities[2] > 0
    /\ Len(ret.kernels) = 2
    /\ Len(ret.kernels[2].dims) = 2

\* C17: construction is pure with respect to its arguments: after the call
\* the caller's data_fidelities holds exactly the same indices as before
\* the call, for every list of indices including negative ones.
C17_CallerListUnchanged ==
    pc # "call" => args.data_fidelities = locals.data_fidelities_before

\* -------------------------- compute_best_feasible_objective, called twice
\* the first of two calls of compute_best_feasible_objective with the same
\* arguments; if it raises, the caller catches the exception
CbfoFirstCall ==
    /\ pc = "call"
    /\ \E lower_bound \in LowerBounds :
         LET r == compute_best_feasible_objective(
                      args.samples, args.obj, args.constraints, args.model,
                      args.X_baseline, args.infeasible_obj, lower_bound)
         IN  locals' = [first |-> [raised |-> r.raised, ret |-> r.ret]]
    /\ pc' = "second_call"
    /\ UNCHANGED <<args, ret, raised>>

\* the second call, with the arguments of the first; torch.rand draws anew
\* if the lower bound is estimated again
CbfoSecondCall ==
    /\ pc = "second_call"
    /\ \E lower_bound \in LowerBounds :
         LET r == compute_best_feasible_objective(
                      args.samples, args.obj, args.constraints, args.model,
                      args.X_baseline, args.infeasible_obj, lower_bound)
         IN  /\ pc' = IF r.raised = "none" THEN "return" ELSE "raise"
             /\ ret' = r.ret
             /\ raised' = r.raised
    /\ UNCHANGED <<args, locals>>

NextCbfoTwice == CbfoFirstCall \/ CbfoSecondCall

SpecCbfoTwice == InitCbfo /\ [][NextCbfoTwice]_vars

\* C18: compute_best_feasible_objective is a deterministic function of its
\* arguments: two calls with identical arguments return identical results,
\* also when some element has no feasible point and infeasible_obj is None,
\* so that the lower bound is inferred from the model and X_baseline.
C18_SameResultTwice ==
    pc \in {"return", "raise"} =>
        /\ raised = locals.first.raised
        /\ ret = locals.first.ret

=============================================================================
